---- MODULE Spec2Model ----
(***************************************************************************)
(* Model of dashboard.py: the Streamlit script that loads the reservation  *)
(* CSV once and, on every change of the sidebar filters, reruns the        *)
(* filter -> KPI -> restaurant summary -> spend distribution -> retention  *)
(* pipeline.                                                               *)
(*                                                                         *)
(* Numbers.  total_spent is an integer amount.  A float quotient a / b is  *)
(* kept as the exact fraction [num |-> a, den |-> b]; den = 0 is the NaN   *)
(* that pandas / numpy produce for 0 / 0 and for the mean of nothing.      *)
(* Quartiles are kept in quarters (4 * value) and the Tukey fence in       *)
(* eighths (8 * value), which is exact for integer amounts.                *)
(* Rendering calls (charts, metrics, tables) are not state and are left    *)
(* out; the messages st.warning / st.info raise are kept in `signals`.     *)
(***************************************************************************)
EXTENDS Integers, Sequences, FiniteSets, TLC

VARIABLES df_base, selected_date_range, selected_restaurants, selected_channels,
          df_filtered, df_confirmadas, kpi, restaurant_summary, stats,
          upper_bound, outliers, df_retention, retention_matrix,
          signals, ran, pc

vars == <<df_base, selected_date_range, selected_restaurants, selected_channels,
          df_filtered, df_confirmadas, kpi, restaurant_summary, stats,
          upper_bound, outliers, df_retention, retention_matrix,
          signals, ran, pc>>

(* ---------------------------- bounds ----------------------------------- *)

\* Number of rows of RawPool a CSV file of the main specification may hold.
PoolSize == 9

\* Largest number of ordinary and of high-value confirmed bookings in a CSV
\* file of the spend-distribution specification.
MaxLow == 18

MaxHigh == 6

(* ---------------------------- helpers ---------------------------------- *)

RECURSIVE SumSeq(_)
SumSeq(s) == IF s = <<>> THEN 0 ELSE Head(s) + SumSeq(Tail(s))

RECURSIVE Repeat(_, _)
Repeat(x, n) == IF n = 0 THEN <<>> ELSE <<x>> \o Repeat(x, n - 1)

Range(s) == {s[i] : i \in 1..Len(s)}

Column(df, col) == [i \in 1..Len(df) |-> df[i][col]]

SetMin(S) == CHOOSE x \in S : \A y \in S : x <= y

\* a / b as a float: an exact fraction, NaN when b = 0
Frac(a, b) == [num |-> a, den |-> b]

Zero == Frac(0, 1)

IsNaN(q) == q.den = 0

(* ------------------------- the CSV file -------------------------------- *)

\* A date_id token such as 'D20230615' as its characters: the letter D
\* (LetterD) followed by the eight decimal digits.
LetterD == 68

DateId(ymd) ==
    <<LetterD>> \o [i \in 1..8 |-> (ymd \div (10 ^ (8 - i))) % 10]

RawRow(r, c, d, ch, s, t) ==
    [restaurant_id |-> r, customer_id |-> c, date_id |-> DateId(d),
     channel_id |-> ch, status |-> s, total_spent |-> t]

\* Sample rows of "Synthetic reserves dataset.csv"; a file of the main
\* specification holds any non-empty selection of the first PoolSize rows.
RawPool ==
    << RawRow("R1", "c1", 20231130, "CH1", "Confirmada", 10),
       RawRow("R2", "c2", 20231201, "CH1", "Cancelada", 20),
       RawRow("R2", "c2", 20231231, "CH1", "No Show", 15),
       RawRow("R1", "c2", 20231231, "CH1", "Confirmada", 30),
       RawRow("R2", "c1", 20231201, "CH1", "Confirmada", 12),
       RawRow("R1", "c2", 20240101, "CH1", "Confirmada", 100),
       RawRow("R1", "c1", 20240101, "CH9", "Confirmada", 30),
       RawRow("R2", "c3", 20240101, "CH9", "Pendiente", 5),
       RawRow("R1", "c3", 20231201, "CH2", "Cancelada", 7),
       RawRow("R2", "c3", 20231130, "CH3", "No Show", 9),
       RawRow("R2", "c1", 20231231, "CH4", "Confirmada", 12) >>

RECURSIVE SubSeqByIndex(_, _, _)
SubSeqByIndex(s, I, i) ==
    IF i > Len(s) THEN <<>>
    ELSE (IF i \in I THEN <<s[i]>> ELSE <<>>) \o SubSeqByIndex(s, I, i + 1)

CsvFiles ==
    {SubSeqByIndex(RawPool, I, 1) : I \in (SUBSET (1..PoolSize)) \ {{}}}

\* Amounts of the spend-distribution files, in file order.
SpendValues == <<10, 12, 11, 13, 100, 16>>

SpendRows(n) ==
    Repeat(RawRow("R1", "c1", 20231201, "CH1", "Confirmada", SpendValues[1]), n[1]) \o
    Repeat(RawRow("R1", "c2", 20231201, "CH1", "Confirmada", SpendValues[2]), n[2]) \o
    Repeat(RawRow("R1", "c1", 20231231, "CH1", "Confirmada", SpendValues[3]), n[3]) \o
    Repeat(RawRow("R2", "c2", 20231231, "CH1", "Confirmada", SpendValues[4]), n[4]) \o
    Repeat(RawRow("R2", "c3", 20240101, "CH2", "Confirmada", SpendValues[5]), n[5]) \o
    Repeat(RawRow("R1", "c3", 20240101, "CH1", "Confirmada", SpendValues[6]), n[6]) \o
    << RawRow("R1", "c1", 20231201, "CH1", "Cancelada", 20),
       RawRow("R2", "c2", 20231201, "CH1", "No Show", 15) >>

SpendFiles ==
    {SpendRows(<<a, b, c, d, e, f>>) :
        a \in 0..MaxLow, b \in 0..1, c \in 0..1, d \in 0..1,
        e \in 0..MaxHigh, f \in 0..1}

(* ------------------- load_and_process_data ----------------------------- *)

\* df['date_id'].str.replace('D', '') and to_datetime(format='%Y%m%d')
ParseDate(date_id) ==
    LET digits == SelectSeq(date_id, LAMBDA x : x # LetterD)
    IN  [year |-> digits[1] * 1000 + digits[2] * 100 + digits[3] * 10 + digits[4],
         mon |-> digits[5] * 10 + digits[6],
         day |-> digits[7] * 10 + digits[8]]

\* df['date'].dt.to_period('M')
ToPeriod(date) == [year |-> date.year, mon |-> date.mon]

channel_mapping(ch) ==
    CASE ch = "CH1" -> "Web"
      [] ch = "CH2" -> "App"
      [] ch = "CH3" -> "Teléfono"
      [] ch = "CH4" -> "Partner"
      [] OTHER -> "Otro"

load_and_process_data(csv) ==
    [i \in 1..Len(csv) |->
        LET date == ParseDate(csv[i].date_id)
        IN  [index |-> i - 1,
             restaurant_id |-> csv[i].restaurant_id,
             customer_id |-> csv[i].customer_id,
             date_id |-> csv[i].date_id,
             channel_id |-> csv[i].channel_id,
             status |-> csv[i].status,
             total_spent |-> csv[i].total_spent,
             date |-> date,
             month |-> ToPeriod(date),
             channel_name |-> channel_mapping(csv[i].channel_id)]]

(* ------------------------- sidebar filters ----------------------------- *)

\* order of Timestamps
DateOrd(d) == d.year * 10000 + d.mon * 100 + d.day

DateLeq(a, b) == DateOrd(a) <= DateOrd(b)

min_date(df) == CHOOSE d \in Range(Column(df, "date")) :
                    \A e \in Range(Column(df, "date")) : DateLeq(d, e)

max_date(df) == CHOOSE d \in Range(Column(df, "date")) :
                    \A e \in Range(Column(df, "date")) : DateLeq(e, d)

all_restaurants(df) == Range(Column(df, "restaurant_id"))

all_channels(df) == Range(Column(df, "channel_name"))

\* The days the date picker offers: min_value <= day <= max_value.
Calendar ==
    {ParseDate(DateId(d)) : d \in {20231130, 20231201, 20231215, 20231231, 20240101}}

DateChoices(df) ==
    {d \in Calendar : DateLeq(min_date(df), d) /\ DateLeq(d, max_date(df))}

\* Variant: the end date left out of the range.
InDateRange_ExclusiveEnd(d, start_date, end_date) ==
    DateLeq(start_date, d) /\ DateOrd(d) < DateOrd(end_date)

\* (df_base['date'] >= start_date) & (df_base['date'] <= end_date)
InDateRange(d, start_date, end_date) ==
    DateLeq(start_date, d) /\ DateLeq(d, end_date)

\* Series.isin(values)
IsIn(x, values) == x \in values

FilterRows(df, start_date, end_date, R, C) ==
    SelectSeq(df, LAMBDA r :
        /\ InDateRange(r.date, start_date, end_date)
        /\ IsIn(r.restaurant_id, R)
        /\ IsIn(r.channel_name, C))

(* ------------------------------ KPIs ----------------------------------- *)

\* df[df['status'] == s]
WithStatus(df, s) == SelectSeq(df, LAMBDA r : r.status = s)

\* Variant: every record that is not confirmed counted under s.
CountStatus_NotConfirmed(df, s) ==
    Len(SelectSeq(df, LAMBDA r : r.status # "Confirmada"))

\* (df['status'] == s).sum()
CountStatus(df, s) == Len(WithStatus(df, s))

\* Series.mean(): NaN for an empty series
Mean(s) == Frac(SumSeq(s), Len(s))

\* Variant: the mean taken without the test for an empty subset.
AvgTicket_Unguarded(confirmadas) == Mean(Column(confirmadas, "total_spent"))

AvgTicket(confirmadas) ==
    IF confirmadas # <<>> THEN Mean(Column(confirmadas, "total_spent")) ELSE Zero

ConfirmationRate(confirmadas, total) ==
    IF total > 0 THEN Frac(Len(confirmadas) * 100, total) ELSE Zero

ComputeKpi(filtered, confirmadas) ==
    LET total_reservations_bruto == Len(filtered)
    IN  [total_revenue |-> SumSeq(Column(confirmadas, "total_spent")),
         avg_ticket |-> AvgTicket(confirmadas),
         confirmation_rate |-> ConfirmationRate(confirmadas, total_reservations_bruto),
         cancellation_rate |->
             Frac(CountStatus(filtered, "Cancelada") * 100, total_reservations_bruto),
         no_show_rate |->
             Frac(CountStatus(filtered, "No Show") * 100, total_reservations_bruto)]

NoKpi == [total_revenue |-> 0, avg_ticket |-> Zero, confirmation_rate |-> Zero,
          cancellation_rate |-> Zero, no_show_rate |-> Zero]

(* ----------------------- restaurant summary ---------------------------- *)

RestaurantRows(df, r) == SelectSeq(df, LAMBDA x : x.restaurant_id = r)

\* The status columns value_counts().unstack(fill_value=0) produces: one per
\* status that occurs somewhere in the filtered view.
StatusColumns(filtered) == Range(Column(filtered, "status"))

\* Variant: revenue grouped over the whole view instead of its confirmed subset.
SummaryJoin_AllStatuses(filtered, confirmadas) ==
    [r \in all_restaurants(filtered) \cup all_restaurants(confirmadas) |->
        LET rows == RestaurantRows(filtered, r)
        IN  [Ingresos_Totales |-> SumSeq(Column(rows, "total_spent")),
             Ticket_Promedio |-> Mean(Column(rows, "total_spent")),
             counts |-> [s \in StatusColumns(filtered) |->
                            CountStatus(RestaurantRows(filtered, r), s)]]]

\* restaurant_revenue (a row per restaurant of the confirmed subset) joined
\* with status_counts (a row per restaurant of the view), NaN filled with 0
SummaryJoin(filtered, confirmadas) ==
    [r \in all_restaurants(filtered) \cup all_restaurants(confirmadas) |->
        LET conf == RestaurantRows(confirmadas, r)
        IN  [Ingresos_Totales |->
                 IF conf # <<>> THEN SumSeq(Column(conf, "total_spent")) ELSE 0,
             Ticket_Promedio |->
                 IF conf # <<>> THEN Mean(Column(conf, "total_spent")) ELSE Zero,
             counts |-> [s \in StatusColumns(filtered) |->
                            CountStatus(RestaurantRows(filtered, r), s)]]]

\* restaurant_summary[['Confirmada', 'Cancelada', 'No Show']]
RequiredColumns == {"Confirmada", "Cancelada", "No Show"}

\* numpy round(x, 1) of the float a / b * 100: tenths, half to even
RoundTenths(a, b) ==
    IF b = 0 THEN Frac(0, 0)
    ELSE LET n == a * 1000
             q == n \div b
             r == n % b
         IN  Frac(IF 2 * r < b THEN q
                  ELSE IF 2 * r > b THEN q + 1
                  ELSE IF q % 2 = 0 THEN q ELSE q + 1, 10)

SummaryRates(joined) ==
    [r \in DOMAIN joined |->
        LET c == joined[r].counts
            total == c["Confirmada"] + c["Cancelada"] + c["No Show"]
        IN  [Ingresos_Totales |-> joined[r].Ingresos_Totales,
             Ticket_Promedio |-> joined[r].Ticket_Promedio,
             counts |-> c,
             Total_Reservas |-> total,
             Tasa_Cancelacion |-> RoundTenths(c["Cancelada"], total),
             Tasa_NoShow |-> RoundTenths(c["No Show"], total)]]

(* ------------------------ spend distribution --------------------------- *)

SortAsc(s) == SortSeq(s, LAMBDA a, b : a < b)

\* 4 * Series.quantile(k / 4), linear interpolation between order statistics
Quantile4(values, k) ==
    LET a == SortAsc(values)
        pos == k * (Len(a) - 1)
        lo == pos \div 4 + 1
        r == pos % 4
    IN  IF r = 0 THEN 4 * a[lo] ELSE 4 * a[lo] + r * (a[lo + 1] - a[lo])

SeqMax(s) == CHOOSE x \in Range(s) : \A y \in Range(s) : y <= x

\* describe(): the four statistics the page shows (quartiles in quarters)
Describe(values) ==
    [q25 |-> Quantile4(values, 1), q50 |-> Quantile4(values, 2),
     q75 |-> Quantile4(values, 3), max |-> SeqMax(values)]

\* 8 * (q3 + 1.5 * (q3 - q1))
UpperBound8(values) ==
    LET q3 == Quantile4(values, 3)
        iqr == q3 - Quantile4(values, 1)
    IN  2 * q3 + 3 * iqr

\* Variant: a record exactly at the bound taken as an outlier.
AboveBound_Inclusive(total_spent, bound8) == 8 * total_spent >= bound8

\* df_confirmadas['total_spent'] > upper_bound
AboveBound(total_spent, bound8) == 8 * total_spent > bound8

Outliers(confirmadas, bound8) ==
    SelectSeq(confirmadas, LAMBDA r : AboveBound(r.total_spent, bound8))

\* the number of rows DataFrame.head() keeps
HeadRows == 5

DisplayColumns(df) ==
    [i \in 1..Len(df) |->
        [restaurant_id |-> df[i].restaurant_id, total_spent |-> df[i].total_spent,
         channel_name |-> df[i].channel_name]]

SortBySpentDesc(df) == SortSeq(df, LAMBDA a, b : a.total_spent > b.total_spent)

DfHead(df) == SubSeq(df, 1, IF Len(df) < HeadRows THEN Len(df) ELSE HeadRows)

\* outliers[[...]].sort_values('total_spent', ascending=False).head()
OutlierTable(out) == DfHead(SortBySpentDesc(DisplayColumns(out)))

(* ------------------------ calculate_retention -------------------------- *)

\* order of monthly Periods
PeriodLeq(a, b) == a.year < b.year \/ (a.year = b.year /\ a.mon <= b.mon)

\* Variant: the customer's latest month.
AcquisitionMonth_Max(df, customer) ==
    LET months == {df[i].month : i \in {j \in 1..Len(df) : df[j].customer_id = customer}}
    IN  CHOOSE m \in months : \A n \in months : PeriodLeq(n, m)

\* groupby('customer_id')['month'].transform('min')
AcquisitionMonth(df, customer) ==
    LET months == {df[i].month : i \in {j \in 1..Len(df) : df[j].customer_id = customer}}
    IN  CHOOSE m \in months : \A n \in months : PeriodLeq(m, n)

\* Variant: the month number alone.
MonthInt_NoYear(p) == p.mon

\* .dt.year * 12 + .dt.month
MonthInt(p) == p.year * 12 + p.mon

\* Variant: the earliest month of the whole frame, not grouped by customer.
WithCohortIndex_Ungrouped(df) ==
    [i \in 1..Len(df) |->
        LET acq == CHOOSE m \in Range(Column(df, "month")) :
                       \A n \in Range(Column(df, "month")) : PeriodLeq(m, n)
        IN  [customer_id |-> df[i].customer_id, month |-> df[i].month,
             acquisition_month |-> acq,
             cohort_index |-> MonthInt(df[i].month) - MonthInt(acq)]]

WithCohortIndex(df) ==
    [i \in 1..Len(df) |->
        LET acq == AcquisitionMonth(df, df[i].customer_id)
        IN  [customer_id |-> df[i].customer_id, month |-> df[i].month,
             acquisition_month |-> acq,
             cohort_index |-> MonthInt(df[i].month) - MonthInt(acq)]]

\* groupby(['acquisition_month', 'cohort_index'])['customer_id'].nunique()
CohortCustomers(dfr, acq, idx) ==
    {dfr[i].customer_id : i \in {j \in 1..Len(dfr) :
        dfr[j].acquisition_month = acq /\ dfr[j].cohort_index = idx}}

\* pivot_table: a row per acquisition month, a column per cohort index that
\* occurs, NaN where the pair does not occur
CohortCounts(dfr) ==
    [acq \in Range(Column(dfr, "acquisition_month")) |->
        [idx \in Range(Column(dfr, "cohort_index")) |->
            IF CohortCustomers(dfr, acq, idx) # {}
            THEN Frac(Cardinality(CohortCustomers(dfr, acq, idx)), 1)
            ELSE Frac(0, 0)]]

MatrixColumns(m) == UNION {DOMAIN m[row] : row \in DOMAIN m}

\* cohort_counts.iloc[:, 0]: the leftmost column, columns in ascending order
FirstColumn(m) == SetMin(MatrixColumns(m))

\* cohort_counts.divide(cohort_sizes, axis=0) * 100
DivideBySizes(counts) ==
    [acq \in DOMAIN counts |->
        LET size == counts[acq][FirstColumn(counts)]
        IN  [idx \in DOMAIN counts[acq] |->
                IF IsNaN(size) \/ IsNaN(counts[acq][idx]) THEN Frac(0, 0)
                ELSE Frac(counts[acq][idx].num * 100, size.num)]]

calculate_retention(df) == DivideBySizes(CohortCounts(WithCohortIndex(df)))

\* retention_matrix.shape[1]
NumColumns(m) == Cardinality(MatrixColumns(m))

\* Variant: only a matrix without columns taken as insufficient.
InsufficientRange_NoColumns(m) == NumColumns(m) < 1

\* if retention_matrix.shape[1] < 2
InsufficientRange(m) == NumColumns(m) < 2

(* --------------------------- the script -------------------------------- *)

NoStats == [q25 |-> 0, q50 |-> 0, q75 |-> 0, max |-> 0]

\* The values a run starts from: nothing computed, nothing signalled.
Cleared ==
    /\ selected_date_range = <<>>
    /\ selected_restaurants = {}
    /\ selected_channels = {}
    /\ df_filtered = <<>>
    /\ df_confirmadas = <<>>
    /\ kpi = NoKpi
    /\ restaurant_summary = <<>>
    /\ stats = NoStats
    /\ upper_bound = 0
    /\ outliers = <<>>
    /\ df_retention = <<>>
    /\ retention_matrix = <<>>
    /\ signals = {}
    /\ ran = {}

Init ==
    /\ df_base \in {load_and_process_data(csv) : csv \in CsvFiles}
    /\ Cleared
    /\ pc = "filter"

InitSpend ==
    /\ df_base \in {load_and_process_data(csv) : csv \in SpendFiles}
    /\ Cleared
    /\ pc = "filter"

\* Lines 54-65: the sidebar widgets return the selection and the base frame
\* is filtered by it.
Filter(start_date, end_date, R, C) ==
    /\ pc = "filter"
    /\ selected_date_range' = <<start_date, end_date>>
    /\ selected_restaurants' = R
    /\ selected_channels' = C
    /\ df_filtered' = FilterRows(df_base, start_date, end_date, R, C)
    /\ pc' = "body"
    /\ UNCHANGED <<df_base, df_confirmadas, kpi, restaurant_summary, stats,
                   upper_bound, outliers, df_retention, retention_matrix,
                   signals, ran>>

\* The analyst picks any range of offered days and any subsets of the options.
FilterAny ==
    /\ pc = "filter"
    /\ \E start_date \in DateChoices(df_base), end_date \in DateChoices(df_base) :
       \E R \in SUBSET all_restaurants(df_base), C \in SUBSET all_channels(df_base) :
           /\ DateLeq(start_date, end_date)
           /\ Filter(start_date, end_date, R, C)

\* The widgets' defaults: the whole range, every restaurant, every channel.
FilterDefault ==
    Filter(min_date(df_base), max_date(df_base),
           all_restaurants(df_base), all_channels(df_base))

\* Lines 68-69
EmptySelection ==
    /\ pc = "body"
    /\ Len(df_filtered) = 0
    /\ signals' = signals \cup {"no_data"}
    /\ pc' = "done"
    /\ UNCHANGED <<df_base, selected_date_range, selected_restaurants,
                   selected_channels, df_filtered, df_confirmadas, kpi,
                   restaurant_summary, stats, upper_bound, outliers,
                   df_retention, retention_matrix, ran>>

\* Lines 70-86
KPIs ==
    /\ pc = "body"
    /\ Len(df_filtered) > 0
    /\ df_confirmadas' = WithStatus(df_filtered, "Confirmada")
    /\ kpi' = ComputeKpi(df_filtered, df_confirmadas')
    /\ ran' = ran \cup {"kpi"}
    /\ pc' = "summary"
    /\ UNCHANGED <<df_base, selected_date_range, selected_restaurants,
                   selected_channels, df_filtered, restaurant_summary, stats,
                   upper_bound, outliers, df_retention, retention_matrix,
                   signals>>

\* Lines 93-94
NoConfirmed ==
    /\ pc = "summary"
    /\ Len(df_confirmadas) = 0
    /\ signals' = signals \cup {"no_confirmed"}
    /\ pc' = "done"
    /\ UNCHANGED <<df_base, selected_date_range, selected_restaurants,
                   selected_channels, df_filtered, df_confirmadas, kpi,
                   restaurant_summary, stats, upper_bound, outliers,
                   df_retention, retention_matrix, ran>>

\* Lines 95-108.  Selecting a status column that the view does not have
\* raises KeyError at line 99 and ends the run; restaurant_summary then holds
\* the joined frame of line 98.
RestaurantSummary ==
    /\ pc = "summary"
    /\ Len(df_confirmadas) > 0
    /\ LET joined == SummaryJoin(df_filtered, df_confirmadas)
       IN  IF RequiredColumns \subseteq StatusColumns(df_filtered)
           THEN /\ restaurant_summary' = SummaryRates(joined)
                /\ ran' = ran \cup {"summary"}
                /\ signals' = signals
                /\ pc' = "spend"
           ELSE /\ restaurant_summary' = joined
                /\ ran' = ran
                /\ signals' = signals \cup {"KeyError"}
                /\ pc' = "done"
    /\ UNCHANGED <<df_base, selected_date_range, selected_restaurants,
                   selected_channels, df_filtered, df_confirmadas, kpi, stats,
                   upper_bound, outliers, df_retention, retention_matrix>>

\* Lines 126-177
SpendDistribution ==
    /\ pc = "spend"
    /\ LET spent == Column(df_confirmadas, "total_spent")
           out == Outliers(df_confirmadas, UpperBound8(spent))
       IN  /\ stats' = Describe(spent)
           /\ upper_bound' = UpperBound8(spent)
           /\ IF Len(out) > 0
              THEN /\ outliers' = OutlierTable(out)
                   /\ signals' = signals
              ELSE /\ outliers' = <<>>
                   /\ signals' = signals \cup {"no_premium"}
    /\ ran' = ran \cup {"spend"}
    /\ pc' = "retention"
    /\ UNCHANGED <<df_base, selected_date_range, selected_restaurants,
                   selected_channels, df_filtered, df_confirmadas, kpi,
                   restaurant_summary, df_retention, retention_matrix>>

\* Lines 182-186
Retention ==
    /\ pc = "retention"
    /\ df_retention' = WithCohortIndex(df_confirmadas)
    /\ retention_matrix' = calculate_retention(df_confirmadas)
    /\ signals' = IF InsufficientRange(retention_matrix')
                  THEN signals \cup {"insufficient_range"}
                  ELSE signals
    /\ ran' = ran \cup {"retention"}
    /\ pc' = "done"
    /\ UNCHANGED <<df_base, selected_date_range, selected_restaurants,
                   selected_channels, df_filtered, df_confirmadas, kpi,
                   restaurant_summary, stats, upper_bound, outliers>>

\* A widget changes and Streamlit runs the script again from the top; the
\* loaded frame is served from st.cache_data.
Rerun ==
    /\ pc = "done"
    /\ selected_date_range' = <<>>
    /\ selected_restaurants' = {}
    /\ selected_channels' = {}
    /\ df_filtered' = <<>>
    /\ df_confirmadas' = <<>>
    /\ kpi' = NoKpi
    /\ restaurant_summary' = <<>>
    /\ stats' = NoStats
    /\ upper_bound' = 0
    /\ outliers' = <<>>
    /\ df_retention' = <<>>
    /\ retention_matrix' = <<>>
    /\ signals' = {}
    /\ ran' = {}
    /\ pc' = "filter"
    /\ UNCHANGED df_base

Next ==
    \/ FilterAny
    \/ EmptySelection
    \/ KPIs
    \/ NoConfirmed
    \/ RestaurantSummary
    \/ SpendDistribution
    \/ Retention
    \/ Rerun

Spec == Init /\ [][Next]_vars

NextSpend ==
    \/ FilterDefault
    \/ KPIs
    \/ NoConfirmed
    \/ RestaurantSummary
    \/ SpendDistribution
    \/ Retention
    \/ Rerun

SpecSpend == InitSpend /\ [][NextSpend]_vars

(* ------------------------------ claims --------------------------------- *)

Filtered == pc # "filter"

SummaryBound == pc \in {"spend", "retention", "done"} /\ Len(df_confirmadas) > 0

Indexes(df) == {df[i].index : i \in 1..Len(df)}

\* d1 <= d2 on calendar dates, field by field
OnOrBefore(d1, d2) ==
    \/ d1.year < d2.year
    \/ d1.year = d2.year /\ d1.mon < d2.mon
    \/ d1.year = d2.year /\ d1.mon = d2.mon /\ d1.day <= d2.day

Selected(r) ==
    /\ OnOrBefore(selected_date_range[1], r.date)
    /\ OnOrBefore(r.date, selected_date_range[2])
    /\ r.restaurant_id \in selected_restaurants
    /\ r.channel_name \in selected_channels

\* C1: the filtered view holds exactly the records of the dataset whose date
\* lies in [start, end], both ends included, whose restaurant is selected and
\* whose channel is selected, each once; an empty restaurant or channel
\* selection gives an empty view.
C1_FilterExact ==
    Filtered =>
        /\ \A i \in 1..Len(df_base) :
               (\E j \in 1..Len(df_filtered) : df_filtered[j] = df_base[i])
                   <=> Selected(df_base[i])
        /\ \A j \in 1..Len(df_filtered) : df_filtered[j] \in Range(df_base)
        /\ Cardinality(Indexes(df_filtered)) = Len(df_filtered)
        /\ (selected_restaurants = {} \/ selected_channels = {})
               => Len(df_filtered) = 0

C1_Witness ==
    /\ Filtered
    /\ selected_date_range[1] # selected_date_range[2]
    /\ \E j \in 1..Len(df_filtered) : df_filtered[j].date = selected_date_range[1]
    /\ \E j \in 1..Len(df_filtered) : df_filtered[j].date = selected_date_range[2]
    /\ Len(df_filtered) < Len(df_base)

Defined(q) == q.den # 0

\* C2: an empty view raises only the "no data" signal and runs no step; a
\* non-empty view gets five defined KPIs, the average ticket being 0 when no
\* record is confirmed.
C2_NoZeroDenominator ==
    /\ (Filtered /\ Len(df_filtered) = 0) =>
           /\ ran = {}
           /\ signals \subseteq {"no_data"}
           /\ pc = "done" => signals = {"no_data"}
           /\ kpi = NoKpi /\ Len(outliers) = 0 /\ Len(df_retention) = 0
    /\ "no_data" \in signals => Len(df_filtered) = 0
    /\ (pc \notin {"filter", "body"} /\ Len(df_filtered) > 0) =>
           /\ "kpi" \in ran
           /\ Defined(kpi.avg_ticket)
           /\ Defined(kpi.confirmation_rate)
           /\ Defined(kpi.cancellation_rate)
           /\ Defined(kpi.no_show_rate)
           /\ kpi.cancellation_rate.den = Len(df_filtered)
           /\ kpi.no_show_rate.den = Len(df_filtered)
           /\ Len(df_confirmadas) = 0 =>
                  kpi.avg_ticket.num = 0 /\ kpi.total_revenue = 0

C2_Witness ==
    /\ "kpi" \in ran
    /\ Len(df_confirmadas) = 0
    /\ Len(df_filtered) > 1

Recognized == {"Confirmada", "Cancelada", "No Show"}

AllRecognized(df) == \A i \in 1..Len(df) : df[i].status \in Recognized

\* C3: in a non-empty view whose statuses are all recognized, the three
\* rates add up to 100 percent.
C3_RatesSumTo100 ==
    ("kpi" \in ran /\ AllRecognized(df_filtered)) =>
        /\ kpi.confirmation_rate.den = Len(df_filtered)
        /\ kpi.cancellation_rate.den = Len(df_filtered)
        /\ kpi.no_show_rate.den = Len(df_filtered)
        /\ kpi.confirmation_rate.num + kpi.cancellation_rate.num
               + kpi.no_show_rate.num = 100 * Len(df_filtered)

C3_Witness ==
    /\ "kpi" \in ran
    /\ AllRecognized(df_filtered)
    /\ Recognized \subseteq Range(Column(df_filtered, "status"))
    /\ Len(df_filtered) > 3

RECURSIVE SetSum(_, _)
SetSum(f, S) ==
    IF S = {} THEN 0
    ELSE LET x == CHOOSE y \in S : TRUE IN f[x] + SetSum(f, S \ {x})

Revenue == [r \in DOMAIN restaurant_summary |-> restaurant_summary[r].Ingresos_Totales]

HasConfirmed(r) ==
    \E i \in 1..Len(df_filtered) :
        df_filtered[i].restaurant_id = r /\ df_filtered[i].status = "Confirmada"

\* C4: the revenue values of the restaurant summary rows add up to the
\* total_revenue KPI, and a restaurant of the view without a confirmed record
\* has a row with revenue 0.
C4_SummaryRevenueTotal ==
    SummaryBound =>
        /\ SetSum(Revenue, DOMAIN restaurant_summary) = kpi.total_revenue
        /\ \A i \in 1..Len(df_filtered) :
               LET r == df_filtered[i].restaurant_id
               IN  /\ r \in DOMAIN restaurant_summary
                   /\ ~HasConfirmed(r) => restaurant_summary[r].Ingresos_Totales = 0

C4_Witness ==
    /\ SummaryBound
    /\ "summary" \in ran
    /\ kpi.total_revenue > 0
    /\ \E r \in DOMAIN restaurant_summary : ~HasConfirmed(r)
    /\ Len(df_confirmadas) >= 2

StatusCount(r, s) ==
    Cardinality({i \in 1..Len(df_filtered) :
        df_filtered[i].restaurant_id = r /\ df_filtered[i].status = s})

Abs(x) == IF x < 0 THEN -x ELSE x

\* rate, in tenths of a percent, is count / total * 100 to one decimal place
IsRate(rate, count, total) ==
    rate.den = 10 /\ 2 * Abs(rate.num * total - count * 1000) <= total

\* C5: whenever a record of the view is confirmed, whichever statuses occur,
\* the summary step completes and every row carries the three status counts
\* (0 for an absent status), their sum as the total, and the two rates.
C5_SummaryCompletes ==
    SummaryBound =>
        /\ "summary" \in ran
        /\ "KeyError" \notin signals
        /\ \A r \in DOMAIN restaurant_summary :
               /\ \A s \in Recognized :
                      restaurant_summary[r].counts[s] = StatusCount(r, s)
               /\ restaurant_summary[r].Total_Reservas =
                      StatusCount(r, "Confirmada") + StatusCount(r, "Cancelada")
                          + StatusCount(r, "No Show")
               /\ restaurant_summary[r].Total_Reservas > 0 =>
                      /\ IsRate(restaurant_summary[r].Tasa_Cancelacion,
                                StatusCount(r, "Cancelada"),
                                restaurant_summary[r].Total_Reservas)
                      /\ IsRate(restaurant_summary[r].Tasa_NoShow,
                                StatusCount(r, "No Show"),
                                restaurant_summary[r].Total_Reservas)


SameMonth(d1, d2) == d1.year = d2.year /\ d1.mon = d2.mon

\* C6: every row of the retention matrix has exactly 100 in the column of
\* cohort index 0, which is the leftmost column.
C6_IndexZeroIs100 ==
    "retention" \in ran =>
        /\ DOMAIN retention_matrix # {}
        /\ \A acq \in DOMAIN retention_matrix :
               /\ 0 \in DOMAIN retention_matrix[acq]
               /\ \A idx \in DOMAIN retention_matrix[acq] : idx >= 0
               /\ Defined(retention_matrix[acq][0])
               /\ retention_matrix[acq][0].num = 100 * retention_matrix[acq][0].den

C6_Witness ==
    /\ "retention" \in ran
    /\ Cardinality(DOMAIN retention_matrix) >= 2
    /\ NumColumns(retention_matrix) >= 2
    /\ \E acq \in DOMAIN retention_matrix :
           \E idx \in DOMAIN retention_matrix[acq] :
               ~Defined(retention_matrix[acq][idx])

\* C7: when the selected range lies within one calendar month and the
\* retention step runs, the matrix has fewer than 2 columns and the run
\* signals "insufficient range"; that signal and "no data" never occur in
\* the same run.
C7_SingleMonthInsufficient ==
    /\ ("retention" \in ran
            /\ SameMonth(selected_date_range[1], selected_date_range[2])) =>
           /\ NumColumns(retention_matrix) < 2
           /\ "insufficient_range" \in signals
    /\ ~("no_data" \in signals /\ "insufficient_range" \in signals)

C7_Witness ==
    /\ "retention" \in ran
    /\ SameMonth(selected_date_range[1], selected_date_range[2])
    /\ selected_date_range[1] # selected_date_range[2]
    /\ Cardinality(Range(Column(df_confirmadas, "customer_id"))) >= 2
    /\ Cardinality(Range(Column(df_confirmadas, "date"))) >= 2

\* whole months from period a to period b
MonthsFromTo(a, b) == (b.year - a.year) * 12 + (b.mon - a.mon)

CustomerMonths(c) ==
    {df_confirmadas[i].month :
        i \in {j \in 1..Len(df_confirmadas) : df_confirmadas[j].customer_id = c}}

\* the earliest of a customer's months, by counting the months before it
FirstMonth(c) ==
    CHOOSE m \in CustomerMonths(c) :
        \A n \in CustomerMonths(c) : MonthsFromTo(m, n) >= 0

\* C8: every record's cohort index is the number of months from its
\* customer's earliest month to its own month: never negative, 0 for some
\* record of every customer, and counted across year boundaries.
C8_CohortIndex ==
    "retention" \in ran =>
        /\ Len(df_retention) = Len(df_confirmadas)
        /\ \A i \in 1..Len(df_retention) :
               /\ df_retention[i].customer_id = df_confirmadas[i].customer_id
               /\ df_retention[i].acquisition_month =
                      FirstMonth(df_confirmadas[i].customer_id)
               /\ df_retention[i].cohort_index =
                      MonthsFromTo(FirstMonth(df_confirmadas[i].customer_id),
                                   df_confirmadas[i].month)
               /\ df_retention[i].cohort_index >= 0
               /\ \E j \in 1..Len(df_retention) :
                      /\ df_retention[j].customer_id = df_retention[i].customer_id
                      /\ df_retention[j].cohort_index = 0
               /\ (df_retention[i].acquisition_month = [year |-> 2023, mon |-> 12]
                       /\ df_confirmadas[i].month = [year |-> 2024, mon |-> 1])
                      => df_retention[i].cohort_index = 1

C8_Witness ==
    /\ "retention" \in ran
    /\ \E i \in 1..Len(df_retention) :
           /\ df_retention[i].acquisition_month = [year |-> 2023, mon |-> 12]
           /\ df_retention[i].month = [year |-> 2024, mon |-> 1]
           /\ df_retention[i].cohort_index = 1
    /\ \E i \in 1..Len(df_retention) : df_retention[i].cohort_index = 2

ReturningCustomer ==
    \E i, j \in 1..Len(df_filtered) :
        /\ df_filtered[i].status = "Confirmada"
        /\ df_filtered[j].status = "Confirmada"
        /\ df_filtered[i].customer_id = df_filtered[j].customer_id
        /\ ~SameMonth(df_filtered[i].date, df_filtered[j].date)

\* C10: the retention matrix has at least 2 columns exactly when some
\* customer has confirmed records of the view in two different months;
\* otherwise the run signals "insufficient range", however long the range.
C10_TwoColumnsIffReturning ==
    "retention" \in ran =>
        /\ NumColumns(retention_matrix) >= 2 <=> ReturningCustomer
        /\ "insufficient_range" \in signals <=> ~ReturningCustomer

C10_Witness ==
    /\ "retention" \in ran
    /\ "insufficient_range" \in signals
    /\ ~SameMonth(selected_date_range[1], selected_date_range[2])
    /\ Cardinality(Range(Column(df_confirmadas, "month"))) >= 2


Spent == Column(df_confirmadas, "total_spent")

\* the k-th smallest amount (k from 1), found by counting
OrderStat(k) ==
    CHOOSE v \in Range(Spent) :
        /\ Cardinality({i \in 1..Len(Spent) : Spent[i] < v}) < k
        /\ Cardinality({i \in 1..Len(Spent) : Spent[i] <= v}) >= k

\* 4 * the percentile 25 * k, interpolated between the order statistics
\* around position (n - 1) * k / 4
Percentile4(k) ==
    LET h == k * (Len(Spent) - 1)
        lower == OrderStat(h \div 4 + 1)
        upper == IF h % 4 = 0 THEN lower ELSE OrderStat(h \div 4 + 2)
    IN  4 * lower + (h % 4) * (upper - lower)

\* 8 * (Q3 + 1.5 * (Q3 - Q1))
Fence8 == 2 * Percentile4(3) + 3 * (Percentile4(3) - Percentile4(1))

OutlierRows ==
    LET fence == Fence8
        spent == Spent
    IN  {i \in 1..Len(spent) : 8 * spent[i] > fence}

Min(a, b) == IF a < b THEN a ELSE b

\* C9: the outlier list holds only confirmed records strictly above
\* Q3 + 1.5 * (Q3 - Q1), in descending order of amount, the
\* min(5, number of outliers) largest of them; for [10,12,11,13,100] the
\* bound is 16 and the list is [100]; an empty list is a normal result.
C9_Outliers ==
    "spend" \in ran =>
        LET fence == Fence8
            rows == OutlierRows
            spent == Spent
        IN  /\ upper_bound = fence
            /\ Len(outliers) = Min(HeadRows, Cardinality(rows))
            /\ \A j \in 1..Len(outliers) :
                   /\ 8 * outliers[j].total_spent > fence
                   /\ \E i \in rows :
                          /\ df_confirmadas[i].total_spent = outliers[j].total_spent
                          /\ df_confirmadas[i].restaurant_id = outliers[j].restaurant_id
                          /\ df_confirmadas[i].channel_name = outliers[j].channel_name
                   /\ j > 1 => outliers[j - 1].total_spent >= outliers[j].total_spent
                   /\ Cardinality({i \in rows :
                          spent[i] > outliers[j].total_spent}) < j
            /\ spent = <<10, 12, 11, 13, 100>> =>
                   /\ upper_bound = 8 * 16
                   /\ Column(outliers, "total_spent") = <<100>>
            /\ rows = {} =>
                   /\ Len(outliers) = 0
                   /\ "no_premium" \in signals
                   /\ "KeyError" \notin signals
                   /\ pc \in {"retention", "done"}

C9_Witness ==
    /\ "spend" \in ran
    /\ Cardinality(OutlierRows) > HeadRows
    /\ Len(outliers) = HeadRows
    /\ Cardinality(Range(Spent)) >= 3

C9_Example ==
    /\ "spend" \in ran
    /\ Spent = <<10, 12, 11, 13, 100>>

C9_AtBound ==
    /\ "spend" \in ran
    /\ \E i \in 1..Len(Spent) : 8 * Spent[i] = upper_bound

====
